---- MODULE Spec2Model ----
(***************************************************************************)
(* Model of the ERC4626 deposit helper (src/index.ts) together with the    *)
(* chain it reads: the MockERC20 token and MockERC4626 vault contracts     *)
(* (src/src/MockERC4626.sol) behind viem's PublicClient.                   *)
(*                                                                         *)
(* deposit() is an async function: it runs from one await to the next in   *)
(* one step.  Each action below is one such step: the response of the      *)
(* pending client request arrives and the function runs up to the next     *)
(* request it issues, or to its return or throw.                           *)
(***************************************************************************)
EXTENDS Integers, Sequences, FiniteSets, TLC

(***************************************************************************)
(* Bounds of the model.                                                    *)
(***************************************************************************)
\* uint256 values are scaled down to 0..UintMax (type(uint256).max).
UintMax == 1
\* Number of state-changing chain transactions (mint, approve,
\* setMaxDepositLimit) other parties may get mined.
MaxWrites == 1
\* eth_estimateGas may answer any of 1 + GasSpread values for one call.
GasSpread == 1

(***************************************************************************)
(* Addresses.  An address is a 160-bit number; small ones are used.        *)
(***************************************************************************)
Wallets == {17, 18}
Vaults == {33, 34}
Tokens == {49, 50}
None == -1

Uint == 0..UintMax
\* The invocations of deposit(): one alone, or two running at once.
Calls == {"a", "b"}
Alone == {"a"}

\* MockERC4626: IERC20 public immutable asset, set by the constructor.
asset == (33 :> 49) @@ (34 :> 50)

(***************************************************************************)
(* Call-data encoding (viem encodeFunctionData with ERC4626_ABI).          *)
(***************************************************************************)
\* An ABI word is 32 bytes.
WordBytes == 32
\* bytes4(keccak256("deposit(uint256,address)")) = 0x6e553f65
DepositSelector == <<110, 85, 63, 101>>

RECURSIVE ToBytesBE(_, _)
\* n as len big-endian bytes, left-padded with zeros.
ToBytesBE(n, len) ==
    IF len = 0 THEN <<>> ELSE Append(ToBytesBE(n \div 256, len - 1), n % 256)

RECURSIVE FromBytesBE(_)
\* The number a big-endian byte string stands for.
FromBytesBE(bytes) ==
    IF bytes = <<>> THEN 0
    ELSE FromBytesBE(SubSeq(bytes, 1, Len(bytes) - 1)) * 256 + bytes[Len(bytes)]

\* encodeFunctionData({abi: ERC4626_ABI, functionName: "deposit", args: [assets, receiver]})
encodeFunctionData(assets, receiver) ==
    DepositSelector \o ToBytesBE(assets, WordBytes) \o ToBytesBE(receiver, WordBytes)

\* What the vault's dispatcher decodes from call data.
DecodeSelector(data) == SubSeq(data, 1, 4)
DecodeAssets(data) == FromBytesBE(SubSeq(data, 5, 4 + WordBytes))
DecodeReceiver(data) == FromBytesBE(SubSeq(data, 5 + WordBytes, 4 + 2 * WordBytes))

(***************************************************************************)
(* State.                                                                  *)
(***************************************************************************)
VARIABLES
    balanceOf,        \* MockERC20.balanceOf, per token:  token -> account -> uint256
    allowance,        \* MockERC20.allowance, per token:  token -> owner -> spender -> uint256
    maxDepositLimit,  \* MockERC4626.maxDepositLimit, per vault
    writes,           \* number of chain transactions mined so far
    calls,            \* the invocations of deposit(): parameters, locals, position, outcome
    raised,           \* per invocation: the failure the client raised to it, if any
    chainAtCall,      \* per invocation: the chain state when it was invoked
    chainChanged,     \* per invocation: whether the chain state changed while it ran
    overlapped        \* per invocation: whether another invocation ran while it ran

vars == <<balanceOf, allowance, maxDepositLimit, writes, calls, raised, chainAtCall,
          chainChanged, overlapped>>

chain == [balanceOf |-> balanceOf, allowance |-> allowance, maxDepositLimit |-> maxDepositLimit]

(***************************************************************************)
(* Errors.                                                                 *)
(***************************************************************************)
NoError == [name |-> "", message |-> ""]
NotEnoughBalanceError == [name |-> "NotEnoughBalanceError", message |-> "Not enough balance"]
MissingAllowanceError == [name |-> "MissingAllowanceError", message |-> "Not enough allowance"]
AmountExceedsMaxDepositError ==
    [name |-> "AmountExceedsMaxDepositError", message |-> "Amount exceeds max deposit"]
ValidationErrors == {NotEnoughBalanceError, MissingAllowanceError, AmountExceedsMaxDepositError}

\* Failures of the client: the transport fails, or the call reverts.
HttpRequestError(fn) == [name |-> "HttpRequestError", message |-> fn]
ExecutionError(fn) == [name |-> "ExecutionError", message |-> fn]

(***************************************************************************)
(* The chain: MockERC20 and MockERC4626 as seen through eth_call.          *)
(***************************************************************************)
Revert == -2

\* A Solidity mapping answers 0 for a key never written.
TokenBalance(token, account) ==
    IF account \in Wallets THEN balanceOf[token][account] ELSE 0

TokenAllowance(token, owner, spender) ==
    IF owner \in Wallets /\ spender \in Vaults THEN allowance[token][owner][spender] ELSE 0

\* client.readContract({address, abi, functionName, args}): the value the
\* contract at address returns, or Revert when it has no such function.
readContract(address, functionName, args) ==
    CASE functionName = "asset" /\ address \in Vaults -> asset[address]
      [] functionName = "maxDeposit" /\ address \in Vaults -> maxDepositLimit[address]
      [] functionName = "balanceOf" /\ address \in Tokens -> TokenBalance(address, args[1])
      [] functionName = "balanceOf" /\ address \in Vaults -> 0
      [] functionName = "allowance" /\ address \in Tokens ->
             TokenAllowance(address, args[1], args[2])
      [] OTHER -> Revert

\* MockERC20.transferFrom(from, to, amount) called by sender reverts.
transferFromReverts(token, sender, from, amount) ==
    \/ TokenBalance(token, from) < amount
    \/ TokenAllowance(token, from, sender) < amount

\* MockERC4626.deposit(assets, receiver) called by sender reverts.
depositReverts(vault, sender, assets) ==
    \/ ~(assets <= maxDepositLimit[vault])
    \/ transferFromReverts(asset[vault], vault, sender, assets)

\* The simulation behind client.estimateGas({account, to, data, value}) reverts.
estimateGasReverts(account, to, data, value) ==
    CASE to \in Vaults ->
             \/ DecodeSelector(data) # DepositSelector
             \/ value # 0
             \/ depositReverts(to, account, DecodeAssets(data))
      [] to \in Tokens -> TRUE
      [] OTHER -> FALSE

\* The gas eth_estimateGas may answer: the intrinsic gas of a transaction
\* plus the cost of the execution, which varies from one estimate to the next.
GasEstimates == {21000 + k : k \in 0..GasSpread}

\* What the client answers to a request in the present chain state.
Response(req, gas) ==
    IF req.functionName = "estimateGas"
    THEN IF estimateGasReverts(req.args[1], req.address, req.data, req.args[2])
         THEN Revert ELSE gas
    ELSE readContract(req.address, req.functionName, req.args)

(***************************************************************************)
(* deposit(client, {wallet, vault, amount}) of src/index.ts.               *)
(***************************************************************************)
NoTransaction == [data |-> <<>>, from |-> None, to |-> None, value |-> None, gas |-> None]

\* An invocation before it is made: nothing read, nothing issued.
NoCall ==
    [pc |-> "idle", wallet |-> None, vault |-> None, amount |-> None,
     assetAddress |-> None, balance |-> None, allowance |-> None, maxDeposit |-> None,
     data |-> <<>>, gas |-> None,
     log |-> <<>>, inflight |-> {},
     result |-> "pending", tx |-> NoTransaction, error |-> NoError]

Awaiting == {"asset", "balanceOf", "allowance", "maxDeposit", "estimateGas"}

\* The requests deposit() hands to the client.
AssetRequest(l) ==
    [functionName |-> "asset", address |-> l.vault, args |-> <<>>, data |-> <<>>]
\* Faulty variant: the balance asked of the vault instead of its asset.
BalanceOfRequest_vault(l) ==
    [functionName |-> "balanceOf", address |-> l.vault, args |-> <<l.wallet>>,
     data |-> <<>>]
BalanceOfRequest(l) ==
    [functionName |-> "balanceOf", address |-> l.assetAddress, args |-> <<l.wallet>>,
     data |-> <<>>]
AllowanceRequest(l) ==
    [functionName |-> "allowance", address |-> l.assetAddress,
     args |-> <<l.wallet, l.vault>>, data |-> <<>>]
MaxDepositRequest(l) ==
    [functionName |-> "maxDeposit", address |-> l.vault, args |-> <<l.wallet>>,
     data |-> <<>>]
EstimateGasRequest(l) ==
    [functionName |-> "estimateGas", address |-> l.vault, args |-> <<l.wallet, 0>>,
     data |-> l.data]

\* Faulty variants of the guards, used to test the properties below: the
\* comparison reversed, the wrong local compared, equality refused, the
\* check left out.
NotEnoughBalance_reversed(l) == l.amount < l.balance
NotEnoughBalance_strict(l) == l.balance <= l.amount
MissingAllowance_reversed(l) == l.amount < l.allowance
MissingAllowance_skipped(l) == FALSE
AmountExceedsMaxDeposit_balance(l) == l.amount > l.balance

\* The three guards.
NotEnoughBalance(l) == l.balance < l.amount
MissingAllowance(l) == l.allowance < l.amount
AmountExceedsMaxDeposit(l) == l.amount > l.maxDeposit

\* Faulty variant: the receiver taken from a variable shared by the
\* invocations, which holds the wallet of another running invocation.
DepositData_shared(l) ==
    LET others == {c \in DOMAIN calls :
                      calls[c].pc \in Awaiting /\ calls[c].wallet # l.wallet}
    IN  IF others = {} THEN encodeFunctionData(l.amount, l.wallet)
        ELSE encodeFunctionData(l.amount, calls[CHOOSE c \in others : TRUE].wallet)

\* The call data of step 5.
DepositData(l) == encodeFunctionData(l.amount, l.wallet)

\* Faulty variants of the returned object: the amount attached as native
\* value; the value taken from the estimate.
Transaction_payable(l) ==
    [data |-> l.data, from |-> l.wallet, to |-> l.vault, value |-> l.amount, gas |-> l.gas]
Transaction_gasValue(l) ==
    [data |-> l.data, from |-> l.wallet, to |-> l.vault, value |-> l.gas - 21000,
     gas |-> l.gas]

\* The object deposit() returns.
Transaction(l) ==
    [data |-> l.data, from |-> l.wallet, to |-> l.vault, value |-> 0, gas |-> l.gas]

\* await client.X(req): the request goes out and the function is suspended.
Issue(l, req) ==
    [l EXCEPT !.pc = req.functionName, !.log = Append(@, req), !.inflight = @ \cup {req}]
\* The awaited request is answered.
Received(l, req) == [l EXCEPT !.inflight = @ \ {req}]
Throw(l, e) == [l EXCEPT !.pc = "done", !.result = "thrown", !.error = e]
Return(l, t) == [l EXCEPT !.pc = "done", !.result = "returned", !.tx = t]

\* Faulty variant: every rejection reported as the last validation error.
Rejected_wrapped(l, e) == Throw(l, AmountExceedsMaxDepositError)

\* An awaited request rejects with failure e: deposit() has no try/catch, so
\* the rejection leaves it as it came.
Rejected(l, e) == Throw(l, e)

\* The request the invocation is suspended on.
Pending(l) == CHOOSE req \in l.inflight : req.functionName = l.pc

\* Lines 95-107: the asset address arrives, the balance is asked for.
AfterAsset(l, value) ==
    LET m == [l EXCEPT !.assetAddress = value] IN Issue(m, BalanceOfRequest(m))

\* Lines 102-119: the balance arrives and is checked, the allowance is asked for.
AfterBalanceOf(l, value) ==
    LET m == [l EXCEPT !.balance = value]
    IN  IF NotEnoughBalance(m) THEN Throw(m, NotEnoughBalanceError)
        ELSE Issue(m, AllowanceRequest(m))

\* Lines 114-131: the allowance arrives and is checked, maxDeposit is asked for.
AfterAllowance(l, value) ==
    LET m == [l EXCEPT !.allowance = value]
    IN  IF MissingAllowance(m) THEN Throw(m, MissingAllowanceError)
        ELSE Issue(m, MaxDepositRequest(m))

\* Lines 126-150: maxDeposit arrives and is checked, the call is encoded and
\* its gas asked for.
AfterMaxDeposit(l, value) ==
    LET m == [l EXCEPT !.maxDeposit = value]
    IN  IF AmountExceedsMaxDeposit(m) THEN Throw(m, AmountExceedsMaxDepositError)
        ELSE LET n == [m EXCEPT !.data = DepositData(m)]
             IN  Issue(n, EstimateGasRequest(n))

\* Lines 145-159: the estimate arrives, the transaction object is returned.
AfterEstimateGas(l, value) ==
    LET m == [l EXCEPT !.gas = value] IN Return(m, Transaction(m))

\* The function resumed with the value of the request it awaited.
Resume(l, value) ==
    CASE l.pc = "asset" -> AfterAsset(l, value)
      [] l.pc = "balanceOf" -> AfterBalanceOf(l, value)
      [] l.pc = "allowance" -> AfterAllowance(l, value)
      [] l.pc = "maxDeposit" -> AfterMaxDeposit(l, value)
      [] l.pc = "estimateGas" -> AfterEstimateGas(l, value)

(***************************************************************************)
(* Actions.                                                                *)
(***************************************************************************)
\* deposit() is invoked: lines 90-99, up to the first await.
deposit(c, wallet, vault, amount) ==
    /\ calls[c].pc = "idle"
    /\ calls' = [calls EXCEPT ![c] =
                    LET l == [NoCall EXCEPT !.wallet = wallet, !.vault = vault,
                                            !.amount = amount]
                    IN  Issue(l, AssetRequest(l))]
    /\ chainAtCall' = [chainAtCall EXCEPT ![c] = chain]
    /\ overlapped' =
          IF \E d \in DOMAIN calls : calls[d].pc \in Awaiting
          THEN [d \in DOMAIN calls |-> overlapped[d] \/ d = c \/ calls[d].pc \in Awaiting]
          ELSE overlapped
    /\ UNCHANGED <<balanceOf, allowance, maxDepositLimit, writes, raised, chainChanged>>

\* The awaited request of invocation c resolves and deposit() runs on.
ClientResolves(c, stage) ==
    /\ calls[c].pc = stage
    /\ \E gas \in GasEstimates :
          LET req == Pending(calls[c])
              value == Response(req, gas)
          IN  /\ value # Revert
              /\ calls' = [calls EXCEPT ![c] = Resume(Received(@, req), value)]
    /\ UNCHANGED <<balanceOf, allowance, maxDepositLimit, writes, raised, chainAtCall,
                   chainChanged, overlapped>>

AssetResolved == \E c \in DOMAIN calls : ClientResolves(c, "asset")
BalanceOfResolved == \E c \in DOMAIN calls : ClientResolves(c, "balanceOf")
AllowanceResolved == \E c \in DOMAIN calls : ClientResolves(c, "allowance")
MaxDepositResolved == \E c \in DOMAIN calls : ClientResolves(c, "maxDeposit")
EstimateGasResolved == \E c \in DOMAIN calls : ClientResolves(c, "estimateGas")

\* The failures the client may raise for a request: the transport may always
\* fail; a call that reverts fails.
Failures(req) ==
    {HttpRequestError(req.functionName)}
        \cup IF \A gas \in GasEstimates : Response(req, gas) = Revert
             THEN {ExecutionError(req.functionName)} ELSE {}

\* The awaited request of invocation c rejects.
ClientRejects(c) ==
    /\ calls[c].pc \in Awaiting
    /\ LET req == Pending(calls[c])
       IN  \E e \in Failures(req) :
              /\ calls' = [calls EXCEPT ![c] = Rejected(Received(@, req), e)]
              /\ raised' = [raised EXCEPT ![c] = e]
    /\ UNCHANGED <<balanceOf, allowance, maxDepositLimit, writes, chainAtCall, chainChanged,
                   overlapped>>

\* Some invocation is suspended on a request.
Running == \E c \in DOMAIN calls : calls[c].pc \in Awaiting

\* A transaction of some other party is mined while an invocation is running.
Mined ==
    /\ Running
    /\ writes < MaxWrites
    /\ writes' = writes + 1
    /\ chainChanged' = [c \in DOMAIN calls |->
                          chainChanged[c] \/ (calls[c].pc \in Awaiting /\ chain' # chain)]
    /\ UNCHANGED <<calls, raised, chainAtCall, overlapped>>

\* MockERC20.mint(to, amount) on token; the addition is checked and reverts
\* on overflow.  totalSupply, which deposit() never reads, is left out.
mint(token, to, amount) ==
    /\ balanceOf[token][to] + amount <= UintMax
    /\ balanceOf' = [balanceOf EXCEPT ![token][to] = @ + amount]
    /\ UNCHANGED <<allowance, maxDepositLimit>>
    /\ Mined

\* MockERC20.approve(spender, amount) on token, sent by owner.
approve(token, owner, spender, amount) ==
    /\ allowance' = [allowance EXCEPT ![token][owner][spender] = amount]
    /\ UNCHANGED <<balanceOf, maxDepositLimit>>
    /\ Mined

\* MockERC4626.setMaxDepositLimit(_limit) on vault.
setMaxDepositLimit(vault, limit) ==
    /\ maxDepositLimit' = [maxDepositLimit EXCEPT ![vault] = limit]
    /\ UNCHANGED <<balanceOf, allowance>>
    /\ Mined

(***************************************************************************)
(* Specifications.                                                         *)
(***************************************************************************)
\* The chain in any state in which every wallet holds b of every token and
\* has approved a of it to every vault, and every vault accepts up to m.
InitChain ==
    /\ \E b \in Uint : balanceOf = [t \in Tokens |-> [w \in Wallets |-> b]]
    /\ \E a \in Uint : allowance = [t \in Tokens |-> [w \in Wallets |-> [v \in Vaults |-> a]]]
    /\ \E m \in Uint : maxDepositLimit = [v \in Vaults |-> m]
    /\ writes = 0

\* The invocations in cs, none made yet.
InitCalls(cs) ==
    /\ calls = [c \in cs |-> NoCall]
    /\ raised = [c \in cs |-> NoError]
    /\ chainAtCall = [c \in cs |-> chain]
    /\ chainChanged = [c \in cs |-> FALSE]
    /\ overlapped = [c \in cs |-> FALSE]

Init == InitChain /\ InitCalls(Alone)

\* deposit() is invoked with some request.
Invoked ==
    \E c \in DOMAIN calls, wallet \in Wallets, vault \in Vaults, amount \in Uint :
        deposit(c, wallet, vault, amount)

\* The awaited request of some invocation rejects.
ClientRejected == \E c \in DOMAIN calls : ClientRejects(c)

\* Transactions of other parties.
Minted == \E token \in Tokens, to \in Wallets, amount \in 1..UintMax : mint(token, to, amount)
Approved ==
    \E token \in Tokens, owner \in Wallets, spender \in Vaults, amount \in Uint :
        approve(token, owner, spender, amount)
LimitSet == \E vault \in Vaults, limit \in Uint : setMaxDepositLimit(vault, limit)

\* One invocation, while other parties' transactions are mined.
Next ==
    \/ Invoked
    \/ AssetResolved
    \/ BalanceOfResolved
    \/ AllowanceResolved
    \/ MaxDepositResolved
    \/ EstimateGasResolved
    \/ ClientRejected
    \/ Minted
    \/ Approved
    \/ LimitSet

Spec == Init /\ [][Next]_vars

\* Several invocations at once over a chain that does not change.
InitConcurrent == InitChain /\ InitCalls(Calls)

NextConcurrent ==
    \/ Invoked
    \/ AssetResolved
    \/ BalanceOfResolved
    \/ AllowanceResolved
    \/ MaxDepositResolved
    \/ EstimateGasResolved
    \/ ClientRejected

ConcurrentSpec == InitConcurrent /\ [][NextConcurrent]_vars

(***************************************************************************)
(* Vocabulary of the properties.                                           *)
(***************************************************************************)
\* Invocation l has issued a request of this name.
Issued(l, fn) == \E i \in 1..Len(l.log) : l.log[i].functionName = fn
\* How many requests of this name it has issued.
TimesIssued(l, fn) == Cardinality({i \in 1..Len(l.log) : l.log[i].functionName = fn})

HasRead(x) == x # None
\* On the values the invocation itself read.
BalancePasses(l) == HasRead(l.balance) /\ l.balance >= l.amount
AllowancePasses(l) == HasRead(l.allowance) /\ l.allowance >= l.amount
MaxDepositPasses(l) == HasRead(l.maxDeposit) /\ l.amount <= l.maxDeposit
ThrewError(l, e) == l.pc = "done" /\ l.result = "thrown" /\ l.error = e /\ l.tx = NoTransaction

(***************************************************************************)
(* C1.  Whenever the balanceOf read of an invocation returned a value      *)
(* below the amount, the invocation has thrown NotEnoughBalanceError and   *)
(* has issued no allowance read, no maxDeposit read and no gas estimation, *)
(* whatever allowance and cap the chain holds.                             *)
(***************************************************************************)
C1_BalanceGuardFirst ==
    \A c \in DOMAIN calls :
        LET l == calls[c]
        IN  (HasRead(l.balance) /\ l.balance < l.amount) =>
                /\ ThrewError(l, NotEnoughBalanceError)
                /\ ~Issued(l, "allowance")
                /\ ~Issued(l, "maxDeposit")
                /\ ~Issued(l, "estimateGas")
                /\ l.inflight = {}

\* A balance below the amount was read, on a chain where the allowance and
\* the cap are below the amount too, and NotEnoughBalanceError was thrown.
C1_Witness ==
    \E c \in DOMAIN calls :
        LET l == calls[c]
        IN  /\ HasRead(l.balance) /\ l.balance < l.amount
            /\ TokenAllowance(asset[l.vault], l.wallet, l.vault) < l.amount
            /\ maxDepositLimit[l.vault] < l.amount
            /\ l.error = NotEnoughBalanceError

(***************************************************************************)
(* C2.  Whenever the balance read passed and the allowance read returned a *)
(* value below the amount, the invocation has thrown MissingAllowanceError *)
(* and has issued no maxDeposit read and no gas estimation, whatever the   *)
(* cap is.                                                                 *)
(***************************************************************************)
C2_AllowanceGuard ==
    \A c \in DOMAIN calls :
        LET l == calls[c]
        IN  (BalancePasses(l) /\ HasRead(l.allowance) /\ l.allowance < l.amount) =>
                /\ ThrewError(l, MissingAllowanceError)
                /\ ~Issued(l, "maxDeposit")
                /\ ~Issued(l, "estimateGas")
                /\ l.inflight = {}

\* An allowance below the amount was read after a sufficient balance, on a
\* chain whose cap is below the amount too.
C2_Witness ==
    \E c \in DOMAIN calls :
        LET l == calls[c]
        IN  /\ BalancePasses(l) /\ HasRead(l.allowance) /\ l.allowance < l.amount
            /\ maxDepositLimit[l.vault] < l.amount
            /\ l.error = MissingAllowanceError

(***************************************************************************)
(* C3.  Whenever the balance and the allowance reads passed and the        *)
(* maxDeposit read returned a value below the amount, the invocation has   *)
(* thrown AmountExceedsMaxDepositError, has encoded no call data and has   *)
(* issued no gas estimation.                                               *)
(***************************************************************************)
C3_MaxDepositGuard ==
    \A c \in DOMAIN calls :
        LET l == calls[c]
        IN  (BalancePasses(l) /\ AllowancePasses(l)
                /\ HasRead(l.maxDeposit) /\ l.maxDeposit < l.amount) =>
                /\ ThrewError(l, AmountExceedsMaxDepositError)
                /\ l.data = <<>>
                /\ ~Issued(l, "estimateGas")
                /\ l.inflight = {}

\* A cap below the amount was read after a sufficient balance and allowance.
C3_Witness ==
    \E c \in DOMAIN calls :
        LET l == calls[c]
        IN  /\ BalancePasses(l) /\ AllowancePasses(l)
            /\ HasRead(l.maxDeposit) /\ l.maxDeposit < l.amount
            /\ l.error = AmountExceedsMaxDepositError

(***************************************************************************)
(* C4.  Equality boundary.  A guard never fires when the value it read     *)
(* equals the amount.  When all three reads passed, one of them with       *)
(* equality, no validation error is thrown and the gas estimation is       *)
(* requested; the invocation then returns a transaction, unless the gas    *)
(* estimation itself fails, and then it ends with that failure.            *)
(***************************************************************************)
AtBoundary(l) ==
    /\ BalancePasses(l) /\ AllowancePasses(l) /\ MaxDepositPasses(l)
    /\ (l.balance = l.amount \/ l.allowance = l.amount \/ l.maxDeposit = l.amount)

C4_EqualityAllowed ==
    \A c \in DOMAIN calls :
        LET l == calls[c]
        IN  /\ l.balance = l.amount => l.error # NotEnoughBalanceError
            /\ (BalancePasses(l) /\ l.allowance = l.amount) => l.error # MissingAllowanceError
            /\ (BalancePasses(l) /\ AllowancePasses(l) /\ l.maxDeposit = l.amount) =>
                   l.error # AmountExceedsMaxDepositError
            /\ AtBoundary(l) =>
                   /\ l.error \notin ValidationErrors
                   /\ Issued(l, "estimateGas")
                   /\ l.pc = "done" =>
                         \/ l.result = "returned" /\ l.tx # NoTransaction
                         \/ /\ l.result = "thrown"
                            /\ raised[c] # NoError
                            /\ raised[c].message = "estimateGas"
                            /\ l.error = raised[c]

\* The all-equal case with a positive amount has returned a transaction.
C4_Witness ==
    \E c \in DOMAIN calls :
        LET l == calls[c]
        IN  /\ l.amount > 0
            /\ l.balance = l.amount /\ l.allowance = l.amount /\ l.maxDeposit = l.amount
            /\ l.result = "returned"

\* C4 as first stated: at the equality boundary with all three guards
\* satisfied, the finished invocation has returned a transaction.
C4_AlwaysReturns ==
    \A c \in DOMAIN calls :
        LET l == calls[c]
        IN  (AtBoundary(l) /\ l.pc = "done") => l.result = "returned"

(***************************************************************************)
(* C5.  Every returned transaction has from = the request's wallet,        *)
(* to = the request's vault, value = 0, gas > 0, and data that decodes to  *)
(* the deposit selector followed by the request's amount and wallet.       *)
(***************************************************************************)
C5_ReturnedTransaction ==
    \A c \in DOMAIN calls :
        LET l == calls[c]
        IN  l.result = "returned" =>
                /\ l.tx.from = l.wallet
                /\ l.tx.to = l.vault
                /\ l.tx.value = 0
                /\ l.tx.gas > 0
                /\ Len(l.tx.data) = 4 + 2 * WordBytes
                /\ DecodeSelector(l.tx.data) = DepositSelector
                /\ DecodeAssets(l.tx.data) = l.amount
                /\ DecodeReceiver(l.tx.data) = l.wallet

\* A transaction for a positive amount has been returned.
C5_Witness ==
    \E c \in DOMAIN calls :
        calls[c].result = "returned" /\ calls[c].amount > 0 /\ calls[c].tx.gas > 21000

(***************************************************************************)
(* C6.  A gas estimation is requested, and a transaction returned, only if *)
(* the three values the invocation read passed their checks; and when the  *)
(* chain did not change during the invocation, every returned transaction  *)
(* is for a request that satisfies the three conditions in that chain      *)
(* state.                                                                  *)
(***************************************************************************)
SatisfiedOn(ch, l) ==
    /\ ch.balanceOf[asset[l.vault]][l.wallet] >= l.amount
    /\ ch.allowance[asset[l.vault]][l.wallet][l.vault] >= l.amount
    /\ l.amount <= ch.maxDepositLimit[l.vault]

C6_BuildsOnlyAfterChecks ==
    \A c \in DOMAIN calls :
        LET l == calls[c]
        IN  /\ (Issued(l, "estimateGas") \/ l.result = "returned" \/ l.data # <<>>) =>
                   BalancePasses(l) /\ AllowancePasses(l) /\ MaxDepositPasses(l)
            /\ (l.result = "returned" /\ ~chainChanged[c]) => SatisfiedOn(chainAtCall[c], l)

\* A transaction for a positive amount was returned by an invocation during
\* which the chain did not change.
C6_Witness ==
    \E c \in DOMAIN calls :
        /\ calls[c].result = "returned" /\ calls[c].amount > 0
        /\ Issued(calls[c], "estimateGas")
        /\ ~chainChanged[c]

(***************************************************************************)
(* C7.  When a request of an invocation fails in the client, the           *)
(* invocation ends throwing that very failure: not a validation error, no  *)
(* transaction, no request issued after the failed one, the failed request *)
(* issued once only.                                                       *)
(***************************************************************************)
C7_ClientFailurePropagates ==
    \A c \in DOMAIN calls :
        LET l == calls[c]
        IN  raised[c] # NoError =>
                /\ l.pc = "done"
                /\ l.result = "thrown"
                /\ l.error = raised[c]
                /\ l.error \notin ValidationErrors
                /\ l.tx = NoTransaction
                /\ l.inflight = {}
                /\ l.log[Len(l.log)].functionName = raised[c].message
                /\ TimesIssued(l, raised[c].message) = 1

\* The gas estimation failed after all three guards had passed.
C7_Witness ==
    \E c \in DOMAIN calls :
        LET l == calls[c]
        IN  /\ raised[c] # NoError /\ raised[c].message = "estimateGas"
            /\ BalancePasses(l) /\ AllowancePasses(l) /\ MaxDepositPasses(l)
            /\ l.result = "thrown"

(***************************************************************************)
(* C9.  The requests of one invocation go out in the order asset(),        *)
(* balanceOf(wallet), allowance(wallet, vault), maxDeposit(wallet),        *)
(* estimateGas, each at most once, at most one in flight, each only after  *)
(* the one before has returned and its guard has passed; balanceOf and     *)
(* allowance go to the address the asset() read returned; estimateGas goes *)
(* out last, carrying the encoded call data.                               *)
(***************************************************************************)
RequestOrder == <<"asset", "balanceOf", "allowance", "maxDeposit", "estimateGas">>

C9_RequestOrder ==
    \A c \in DOMAIN calls :
        LET l == calls[c]
            n == Len(l.log)
        IN  /\ n <= Len(RequestOrder)
            /\ \A i \in 1..n : l.log[i].functionName = RequestOrder[i]
            /\ Cardinality(l.inflight) <= 1
            /\ \A req \in l.inflight : n > 0 /\ req = l.log[n]
            /\ l.pc \in Awaiting <=> l.inflight # {}
            /\ n >= 1 => l.log[1].address = l.vault /\ l.log[1].args = <<>>
            /\ n >= 2 =>
                  /\ HasRead(l.assetAddress)
                  /\ l.assetAddress = asset[l.vault]
                  /\ l.log[2].address = l.assetAddress
                  /\ l.log[2].args = <<l.wallet>>
            /\ n >= 3 =>
                  /\ BalancePasses(l)
                  /\ l.log[3].address = l.assetAddress
                  /\ l.log[3].args = <<l.wallet, l.vault>>
            /\ n >= 4 =>
                  /\ AllowancePasses(l)
                  /\ l.log[4].address = l.vault
                  /\ l.log[4].args = <<l.wallet>>
            /\ n >= 5 =>
                  /\ MaxDepositPasses(l)
                  /\ l.data # <<>>
                  /\ l.log[5].address = l.vault
                  /\ l.log[5].args = <<l.wallet, 0>>
                  /\ l.log[5].data = l.data
            \* a value is read only once its request has gone out and returned
            /\ HasRead(l.balance) => n >= 2 /\ (n = 2 => l.inflight = {})
            /\ HasRead(l.allowance) => n >= 3 /\ (n = 3 => l.inflight = {})
            /\ HasRead(l.maxDeposit) => n >= 4 /\ (n = 4 => l.inflight = {})
            /\ HasRead(l.gas) => n = 5 /\ l.inflight = {}

\* All five requests have gone out and the last has returned.
C9_Witness ==
    \E c \in DOMAIN calls :
        /\ Len(calls[c].log) = 5 /\ calls[c].inflight = {}
        /\ calls[c].result = "returned" /\ calls[c].amount > 0

(***************************************************************************)
(* C8.  Idempotence.  Two finished invocations with the same request over  *)
(* the same, unchanged chain state have the same outcome: the same error,  *)
(* or two transactions with the same data, from, to and value and each a   *)
(* gas > 0; provided the client failed in neither, or failed at the same   *)
(* request in both.                                                        *)
(***************************************************************************)
SameRequest(l, m) == l.wallet = m.wallet /\ l.vault = m.vault /\ l.amount = m.amount

CalledTwice(a, b) ==
    /\ a # b
    /\ calls[a].pc = "done" /\ calls[b].pc = "done"
    /\ SameRequest(calls[a], calls[b])
    /\ chainAtCall[a] = chainAtCall[b]
    /\ ~chainChanged[a] /\ ~chainChanged[b]

\* Returned, or the name of the error thrown.
OutcomeKind(l) == IF l.result = "returned" THEN "Transaction" ELSE l.error.name

SameTransaction(l, m) ==
    /\ l.tx.data = m.tx.data /\ l.tx.from = m.tx.from
    /\ l.tx.to = m.tx.to /\ l.tx.value = m.tx.value
    /\ l.tx.gas > 0 /\ m.tx.gas > 0

OutcomeAlone(ch, wallet, vault, amount, e) ==
    CASE e # NoError -> e.name
      [] e = NoError /\ ch.balanceOf[asset[vault]][wallet] < amount -> "NotEnoughBalanceError"
      [] e = NoError /\ ch.balanceOf[asset[vault]][wallet] >= amount
            /\ ch.allowance[asset[vault]][wallet][vault] < amount -> "MissingAllowanceError"
      [] e = NoError /\ ch.balanceOf[asset[vault]][wallet] >= amount
            /\ ch.allowance[asset[vault]][wallet][vault] >= amount
            /\ amount > ch.maxDepositLimit[vault] -> "AmountExceedsMaxDepositError"
      [] OTHER -> "Transaction"

C10_NoInterference ==
    \A c \in DOMAIN calls :
        LET l == calls[c]
        IN  /\ HasRead(l.assetAddress) => l.assetAddress = asset[l.vault]
            /\ HasRead(l.balance) => l.balance = balanceOf[asset[l.vault]][l.wallet]
            /\ HasRead(l.allowance) => l.allowance = allowance[asset[l.vault]][l.wallet][l.vault]
            /\ HasRead(l.maxDeposit) => l.maxDeposit = maxDepositLimit[l.vault]
            /\ \A i \in 1..Len(l.log) :
                  /\ l.log[i].address \in {l.vault, asset[l.vault]}
                  /\ \A j \in 1..Len(l.log[i].args) : l.log[i].args[j] \in {l.wallet, l.vault, 0}
                  /\ l.log[i].data \in {<<>>, l.data}
            /\ l.pc = "done" =>
                  /\ OutcomeKind(l) = OutcomeAlone(chain, l.wallet, l.vault, l.amount, raised[c])
                  /\ l.result = "returned" =>
                        /\ l.tx.from = l.wallet
                        /\ l.tx.to = l.vault
                        /\ l.tx.value = 0
                        /\ DecodeSelector(l.tx.data) = DepositSelector
                        /\ DecodeAssets(l.tx.data) = l.amount
                        /\ DecodeReceiver(l.tx.data) = l.wallet

\* Two invocations for different wallets and different vaults ran at the
\* same time and have each returned a transaction for a positive amount.
C10_Witness ==
    \E a, b \in DOMAIN calls :
        /\ calls[a].wallet # calls[b].wallet /\ calls[a].vault # calls[b].vault
        /\ calls[a].result = "returned" /\ calls[a].amount > 0
        /\ calls[b].result = "returned" /\ calls[b].amount > 0
        /\ calls[a].tx.data # calls[b].tx.data
        /\ overlapped[a] /\ overlapped[b]

====
